---------------------------- MODULE Spec2Model ----------------------------
(***************************************************************************)
(* A model of the crawl-index-search engine of searchengine.py and of the  *)
(* /search route of myapp.py.                                              *)
(*                                                                         *)
(* Text is modelled at the level the code works at: a string is a sequence *)
(* of characters, a tokenised document is the list re.findall returns (in  *)
(* the model every token is one character long), and a result entry is the *)
(* list [count, context, url, title] the code builds.  Python indices are  *)
(* 0-based and kept so; TLA+ sequences are 1-based, the operators convert. *)
(***************************************************************************)
EXTENDS Integers, Sequences, FiniteSets, TLC

VARIABLES
    (* ---- the index on disk and the engine's build (searchengine.py) ---- *)
    indexDir,        \* "absent" | "index": what exists_in(self.index_dir) sees
    committed,       \* urls of the documents of the committed index
    buildPc,         \* position of build_index: "idle" | "crawl" | "loop"
    visited,         \* crawler.visited, the list build_index iterates
    noContent,       \* urls for which crawler.get_content returns None
    todo,            \* the part of crawler.visited the loop has not reached
    pending,         \* urls added to the writer and not committed yet
    buildLog,        \* what the last build_index call saw and did
    (* ---- one request to the /search route (myapp.py) ---- *)
    search_history,  \* the module-level list of past queries
    lastRequest,     \* the last request: query, outcome, result
    (* ---- search's ranking stage on a given candidate list ---- *)
    cands,           \* the retrieved candidates, as [count, context, url, title]
    ranked,          \* the list search returns for them
    rankPc,          \* "input" | "done"
    (* ---- search's scan of one retrieved document ---- *)
    words,           \* the query terms
    doc,             \* the document's tokens (re.findall on its text)
    found,           \* what search returns when doc is the one retrieved
    scanPc           \* "input" | "done"

vars == <<indexDir, committed, buildPc, visited, noContent, todo, pending,
          buildLog, search_history, lastRequest, cands, ranked, rankPc,
          words, doc, found, scanPc>>

buildVars == <<indexDir, committed, buildPc, visited, noContent, todo,
               pending, buildLog>>
appVars   == <<search_history, lastRequest>>
rankVars  == <<cands, ranked, rankPc>>
scanVars  == <<words, doc, found, scanPc>>

-----------------------------------------------------------------------------
(* Bounds of the model *)

MaxTokens == 9      \* longest tokenised document that is scanned
MaxCands  == 3      \* longest candidate list that is ranked
MaxQueries == 12    \* distinct non-empty queries the front end is sent

-----------------------------------------------------------------------------
(* Strings *)

\* Code point of a character: Python compares strings by code point.
Code(c) ==
    CASE c = " " -> 32 [] c = "," -> 44 [] c = "." -> 46
      [] c = "A" -> 65 [] c = "a" -> 97 [] c = "b" -> 98 [] c = "x" -> 120

\* str.lower() on one character.
Lower(c) == IF c = "A" THEN "a" ELSE c

\* s < t for two strings (sequences of characters), as Python orders them.
RECURSIVE StrLess(_, _)
StrLess(s, t) ==
    IF t = <<>> THEN FALSE
    ELSE IF s = <<>> THEN TRUE
    ELSE IF Head(s) # Head(t) THEN Code(Head(s)) < Code(Head(t))
    ELSE StrLess(Tail(s), Tail(t))

\* All sequences over S of length at most n
SeqsUpTo(S, n) == UNION {[1..k -> S] : k \in 0..n}

Min(a, b) == IF a < b THEN a ELSE b
Max(a, b) == IF a > b THEN a ELSE b

\* Python's s[lo:hi] for 0-based lo and hi, either of which may be negative:
\* a negative index counts from the end, and both are clipped to 0..len(s).
PySlice(s, lo, hi) ==
    LET n  == Len(s)
        l  == IF lo < 0 THEN Max(lo + n, 0) ELSE Min(lo, n)
        h  == IF hi < 0 THEN Max(hi + n, 0) ELSE Min(hi, n)
    IN  SubSeq(s, l + 1, h)

\* " ".join(tokens), every token one character long.
RECURSIVE Join(_)
Join(tokens) ==
    IF tokens = <<>> THEN <<>>
    ELSE IF Len(tokens) = 1 THEN <<Head(tokens)>>
    ELSE <<Head(tokens), " ">> \o Join(Tail(tokens))

\* s.replace(' ' + c, c): left to right, occurrences do not overlap.
RECURSIVE Replace(_, _)
Replace(s, c) ==
    IF Len(s) < 2 THEN s
    ELSE IF s[1] = " " /\ s[2] = c THEN <<c>> \o Replace(SubSeq(s, 3, Len(s)), c)
    ELSE <<Head(s)>> \o Replace(Tail(s), c)

-----------------------------------------------------------------------------
(* SearchEngine.search, lines 109-122: the scan of one retrieved document *)

ContextBefore == 4     \* content_for_context[spot-4 : ...]
ContextStop   == 5     \* content_for_context[... : spot+5]

\* content = re.findall(..., text_content.lower())
LowerAll(tokens) == [k \in 1..Len(tokens) |-> Lower(tokens[k])]

\* As InWords, the query terms lower-cased before the comparison
InWordsLowered(word, ws) == \E k \in 1..Len(ws) : Lower(ws[k]) = word

\* word in words, words a Python list
InWords(word, ws) == \E k \in 1..Len(ws) : ws[k] = word

\* The context stored for a match at 0-based position spot.
ContextAt(tokens, spot) ==
    Replace(Replace(Join(PySlice(tokens, spot - ContextBefore, spot + ContextStop)),
                    "."), ",")

\* for spot, word in enumerate(content): ... from position spot on, with the
\* count and the context reached so far.
RECURSIVE ScanFrom(_, _, _, _, _)
ScanFrom(spot, tokens, ws, occ, ctx) ==
    IF spot >= Len(tokens) THEN <<occ, ctx>>
    ELSE IF InWords(LowerAll(tokens)[spot + 1], ws)
         THEN ScanFrom(spot + 1, tokens, ws, occ + 1, ContextAt(tokens, spot))
         ELSE ScanFrom(spot + 1, tokens, ws, occ, ctx)

\* word_occurrences[indx] and context[indx] after the loop; both start as 0
\* (the context of a document without a match is never read as a string,
\* the empty string stands for it).
ScanDocument(tokens, ws) == ScanFrom(0, tokens, ws, 0, <<>>)

-----------------------------------------------------------------------------
(* SearchEngine.search, lines 125-163: filter, deduplicate, sort *)

\* The 0 that fills the unused places of word_con_urls_tit, compare_titles
\* and compare_urls.  A place that is set holds a one-element tuple in the
\* compare_ lists, so that an empty title still differs from 0.
Zero == <<>>

\* lines 127-134: only documents with an occurrence are recorded
Recorded(cs) ==
    [i \in 1..Len(cs) |->
        IF cs[i].count > 0
        THEN <<cs[i].count, cs[i].context, cs[i].url, cs[i].title>>
        ELSE Zero]

\* entry[3] not in compare_titles
NotInTitles(title, compare_titles) ==
    \A k \in 1..Len(compare_titles) : compare_titles[k] # <<title>>

\* As RemoveLonger, the earlier entry removed on equal url lengths too
RECURSIVE RemoveLongerOrEqual(_, _, _, _, _)
RemoveLongerOrEqual(st, i, entry, idx, n) ==
    IF idx > n THEN st
    ELSE IF st.compare_titles[idx] = <<entry[4]>>
         THEN IF Len(entry[3]) <= Len(st.compare_urls[idx][1])
              THEN RemoveLongerOrEqual([st EXCEPT !.word_con_urls_tit[idx] = Zero],
                                       i, entry, idx + 1, n)
              ELSE RemoveLongerOrEqual([st EXCEPT !.word_con_urls_tit[i] = Zero],
                                       i, entry, idx + 1, n)
         ELSE RemoveLongerOrEqual(st, i, entry, idx + 1, n)

\* lines 150-157: the inner loop over compare_titles, from place idx on, for
\* the duplicate entry found at place i
RECURSIVE RemoveLonger(_, _, _, _, _)
RemoveLonger(st, i, entry, idx, n) ==
    IF idx > n THEN st
    ELSE IF st.compare_titles[idx] = <<entry[4]>>
         THEN IF Len(entry[3]) < Len(st.compare_urls[idx][1])
              THEN RemoveLonger([st EXCEPT !.word_con_urls_tit[idx] = Zero],
                                i, entry, idx + 1, n)
              ELSE RemoveLonger([st EXCEPT !.word_con_urls_tit[i] = Zero],
                                i, entry, idx + 1, n)
         ELSE RemoveLonger(st, i, entry, idx + 1, n)

\* lines 140-157: one round of the outer loop, for place i
DedupStep(st, i) ==
    LET entry == st.word_con_urls_tit[i]
    IN  IF entry = Zero THEN st
        ELSE IF NotInTitles(entry[4], st.compare_titles)
             THEN [st EXCEPT !.compare_titles[i] = <<entry[4]>>,
                             !.compare_urls[i]   = <<entry[3]>>]
             ELSE RemoveLonger(st, i, entry, 1, Len(st.compare_titles))

RECURSIVE DedupFrom(_, _)
DedupFrom(st, i) ==
    IF i > Len(st.word_con_urls_tit) THEN st
    ELSE DedupFrom(DedupStep(st, i), i + 1)

\* lines 137-157
Dedup(wc) ==
    DedupFrom([word_con_urls_tit |-> wc,
               compare_titles    |-> [i \in 1..Len(wc) |-> Zero],
               compare_urls      |-> [i \in 1..Len(wc) |-> Zero]], 1).word_con_urls_tit

\* line 160: [elem for elem in word_con_urls_tit if elem != 0]
RECURSIVE Compact(_)
Compact(wc) ==
    IF wc = <<>> THEN <<>>
    ELSE IF Head(wc) = Zero THEN Compact(Tail(wc))
    ELSE <<Head(wc)>> \o Compact(Tail(wc))

\* a < b for two entries: Python compares the lists [count, context, url,
\* title] element by element.
EntryLess(a, b) ==
    IF a[1] # b[1] THEN a[1] < b[1]
    ELSE IF a[2] # b[2] THEN StrLess(a[2], b[2])
    ELSE IF a[3] # b[3] THEN StrLess(a[3], b[3])
    ELSE StrLess(a[4], b[4])

\* e put into a descending list before the first element smaller than it
RECURSIVE InsertDesc(_, _)
InsertDesc(e, s) ==
    IF s = <<>> THEN <<e>>
    ELSE IF EntryLess(Head(s), e) THEN <<e>> \o s
    ELSE <<Head(s)>> \o InsertDesc(e, Tail(s))

\* e put into an ascending list before the first element larger than it
RECURSIVE InsertAsc(_, _)
InsertAsc(e, s) ==
    IF s = <<>> THEN <<e>>
    ELSE IF EntryLess(e, Head(s)) THEN <<e>> \o s
    ELSE <<Head(s)>> \o InsertAsc(e, Tail(s))

\* As SortedReverse, ascending (reverse = True left out)
RECURSIVE SortedAscending(_, _)
SortedAscending(rest, acc) ==
    IF rest = <<>> THEN acc
    ELSE SortedAscending(Tail(rest), InsertAsc(Head(rest), acc))

\* line 161: sorted(word_con_urls_tit, reverse = True), a stable sort
RECURSIVE SortedReverse(_, _)
SortedReverse(rest, acc) ==
    IF rest = <<>> THEN acc
    ELSE SortedReverse(Tail(rest), InsertDesc(Head(rest), acc))

\* lines 125-163 on the zipped scan results cs
RankResults(cs) == SortedReverse(Compact(Dedup(Recorded(cs))), <<>>)

\* lines 101-163: search after the retrieval, results being the retrieved
\* documents [url, title, content] in the order the index returned them
Search(ws, results) ==
    RankResults([i \in 1..Len(results) |->
        [count   |-> ScanDocument(results[i].content, ws)[1],
         context |-> ScanDocument(results[i].content, ws)[2],
         url     |-> results[i].url,
         title   |-> results[i].title]])

-----------------------------------------------------------------------------
(* The index and build_index (searchengine.py, lines 31-68) *)

\* The crawled site: what get_content and the title extraction give per url
Page(url) ==
    CASE url = <<"a">>      -> [title |-> <<"A">>, content |-> <<"x", "A", ".">>]
      [] url = <<"b">>      -> [title |-> <<"A">>, content |-> <<"x">>]
      [] url = <<"a", "a">> -> [title |-> <<"x">>, content |-> <<"A">>]

WebUrls == {<<"a">>, <<"b">>, <<"a", "a">>}

\* The document add_document stores for a url
Document(url) == [url |-> url, title |-> Page(url).title, content |-> Page(url).content]

\* searcher.doc_count() of the committed index
doc_count == Cardinality(committed)

\* As is_index_built, an index of one document taken for not built
more_than_one_document == indexDir = "index" /\ doc_count > 1

\* is_index_built, lines 64-68
is_index_built == indexDir = "index" /\ doc_count > 0

\* The lists crawler.visited can be after crawl(): every url at most once
VisitedLists ==
    {v \in SeqsUpTo(WebUrls, Cardinality(WebUrls)) :
        \A i, j \in 1..Len(v) : i # j => v[i] # v[j]}

Range(f) == {f[i] : i \in DOMAIN f}

\* build_index on a built index: line 40 is false, nothing is done
BuildIndexBuilt ==
    /\ buildPc = "idle"
    /\ is_index_built
    /\ buildLog' = [called |-> TRUE, before |-> doc_count, crawled |-> FALSE,
                    raised |-> FALSE, returned |-> TRUE, indexed |-> committed]
    /\ UNCHANGED <<indexDir, committed, buildPc, visited, noContent, todo, pending>>
    /\ UNCHANGED <<appVars, rankVars, scanVars>>

\* build_index, lines 40-41: the index is not built, the writer is opened.
\* Without the directory the writer's lock file cannot be created.
BuildIndexStart ==
    /\ buildPc = "idle"
    /\ ~is_index_built
    /\ IF indexDir = "index"
       THEN /\ buildPc' = "crawl"
            /\ buildLog' = [called |-> TRUE, before |-> doc_count, crawled |-> FALSE,
                            raised |-> FALSE, returned |-> FALSE, indexed |-> {}]
       ELSE /\ buildPc' = "idle"
            /\ buildLog' = [called |-> TRUE, before |-> doc_count, crawled |-> FALSE,
                            raised |-> TRUE, returned |-> FALSE, indexed |-> {}]
    /\ pending' = {}
    /\ UNCHANGED <<indexDir, committed, visited, noContent, todo>>
    /\ UNCHANGED <<appVars, rankVars, scanVars>>

\* build_index, lines 42-44: crawl(), then the loop over crawler.visited
\* begins.  The crawler is outside the engine: which urls it visited, and for
\* which of them get_content returns None, is its choice.
Crawl ==
    /\ buildPc = "crawl"
    /\ \E v \in VisitedLists : \E none \in SUBSET Range(v) :
           /\ visited' = v
           /\ noContent' = none
           /\ todo' = v
    /\ buildPc' = "loop"
    /\ buildLog' = [buildLog EXCEPT !.crawled = TRUE]
    /\ UNCHANGED <<indexDir, committed, pending>>
    /\ UNCHANGED <<appVars, rankVars, scanVars>>

\* build_index, lines 45-54: one round of the loop.  Line 46 hands the content
\* to BeautifulSoup before line 53 tests it: for None the constructor raises
\* TypeError (it takes len() of the markup), build_index ends there and the
\* writer is never committed.
AddDocument ==
    /\ buildPc = "loop"
    /\ todo # <<>>
    /\ IF Head(todo) \in noContent
       THEN /\ buildPc' = "idle"
            /\ todo' = <<>>
            /\ pending' = {}
            /\ buildLog' = [buildLog EXCEPT !.raised = TRUE]
       ELSE /\ buildPc' = "loop"
            /\ todo' = Tail(todo)
            /\ pending' = pending \cup {Head(todo)}
            /\ buildLog' = buildLog
    /\ UNCHANGED <<indexDir, committed, visited, noContent>>
    /\ UNCHANGED <<appVars, rankVars, scanVars>>

\* build_index, line 55: writer.commit()
Commit ==
    /\ buildPc = "loop"
    /\ todo = <<>>
    /\ committed' = committed \cup pending
    /\ pending' = {}
    /\ buildPc' = "idle"
    /\ buildLog' = [buildLog EXCEPT !.returned = TRUE, !.indexed = committed \cup pending]
    /\ UNCHANGED <<indexDir, visited, noContent, todo>>
    /\ UNCHANGED <<appVars, rankVars, scanVars>>

\* The index directory is deleted from outside while no build runs: the state
\* in which exists_in (line 64) is false for a constructed engine.
RemoveIndexDir ==
    /\ buildPc = "idle"
    /\ indexDir = "index"
    /\ indexDir' = "absent"
    /\ committed' = {}
    /\ UNCHANGED <<buildPc, visited, noContent, todo, pending, buildLog>>
    /\ UNCHANGED <<appVars, rankVars, scanVars>>

-----------------------------------------------------------------------------
(* The /search route (myapp.py, lines 19-52) *)

max_pages  == 100      \* SearchEngine('https://...', 100)
HistoryCap == 10       \* if len(search_history) > 10

\* searcher.search(query, limit=self.max_pages): which committed documents
\* match and in which order is the index library's business; every list of
\* distinct committed documents of at most max_pages is taken as possible.
Retrieved ==
    {[i \in 1..Len(v) |-> Document(v[i])] :
        v \in {u \in VisitedLists : Range(u) \subseteq committed /\ Len(u) <= max_pages}}

\* As Appended, the newest entry dropped when the list is too long
AppendedDropNewest(history, query) ==
    LET h == IF query \notin Range(history) /\ query # <<>>
             THEN Append(history, query) ELSE history
    IN  IF Len(h) > HistoryCap THEN SubSeq(h, 1, Len(h) - 1) ELSE h

\* lines 33-39: search_history after a request for query
Appended(history, query) ==
    LET h == IF query \notin Range(history) /\ query # <<>>
             THEN Append(history, query) ELSE history
    IN  IF Len(h) > HistoryCap THEN Tail(h) ELSE h

\* line 39: what search_history.pop(0) takes out, the empty list when the
\* history is not too long and nothing is taken out
Popped(history, query) ==
    LET h == IF query \notin Range(history) /\ query # <<>>
             THEN Append(history, query) ELSE history
    IN  IF Len(h) > HistoryCap THEN Head(h) ELSE <<>>

\* The whole handler for the query q (a query is written as the list of its
\* words, the empty list being the empty query string).  Line 29 calls
\* search for every query; search opens the index directory (line 87), which
\* raises when there is no index in it, and the handler ends there.  The
\* spelling recommendation of lines 41-50 changes nothing that is kept.
SearchRequest(q) ==
    /\ IF indexDir = "index"
       THEN \E results \in Retrieved :
               /\ lastRequest' = [outcome |-> "rendered", query |-> q, searched |-> TRUE,
                                  docs |-> doc_count, result |-> Search(q, results),
                                  popped |-> Popped(search_history, q)]
               /\ search_history' = Appended(search_history, q)
       ELSE /\ lastRequest' = [outcome |-> "raised", query |-> q, searched |-> TRUE,
                               docs |-> doc_count, result |-> <<>>, popped |-> <<>>]
            /\ search_history' = search_history
    /\ UNCHANGED <<buildVars, rankVars, scanVars>>

-----------------------------------------------------------------------------
(* Inputs *)

TokenAlphabet == {"x", "A", "."}
WordLists     == {<<"x">>, <<"a">>, <<"A">>, <<"x", "a">>}

Urls     == {<<"a">>, <<"b">>, <<"a", "a">>, <<"a", "a", "a">>}
Titles   == {<<"A">>, <<"x">>}
Counts   == {0, 1, 2}
Contexts == {<<"x">>, <<"A">>}

\* What the scan gives for one document: without occurrence, no context
Scans == {sc \in [count : Counts, context : Contexts \cup {<<>>}] :
             (sc.count = 0) <=> (sc.context = <<>>)}

\* The index returns a document once: the urls of a candidate list differ.
UrlLists ==
    {v \in SeqsUpTo(Urls, MaxCands) : \A i, j \in 1..Len(v) : i # j => v[i] # v[j]}

\* The zipped lists word_occurrences, context, urls, titles of line 126 for
\* the urls v, the scan results sc and the titles t
Zipped(v, sc, t) ==
    [i \in 1..Len(v) |-> [count |-> sc[i].count, context |-> sc[i].context,
                          url |-> v[i], title |-> t[i]]]

-----------------------------------------------------------------------------
(* The parts of the state a specification does not use stay as they are here *)

NoBuild   == [called |-> FALSE, before |-> 0, crawled |-> FALSE,
              raised |-> FALSE, returned |-> FALSE, indexed |-> {}]
NoRequest == [outcome |-> "none", query |-> <<>>, searched |-> FALSE,
              docs |-> 0, result |-> <<>>, popped |-> <<>>]

BuildIdle ==
    /\ indexDir = "index" /\ committed = {} /\ buildPc = "idle"
    /\ visited = <<>> /\ noContent = {} /\ todo = <<>> /\ pending = {}
    /\ buildLog = NoBuild
AppIdle  == search_history = <<>> /\ lastRequest = NoRequest
RankIdle == cands = <<>> /\ ranked = <<>> /\ rankPc = "idle"
ScanIdle == words = <<>> /\ doc = <<>> /\ found = <<>> /\ scanPc = "idle"

-----------------------------------------------------------------------------
(* SpecRank: lines 125-163 of search applied to every candidate list *)

InitRank ==
    /\ \E v \in UrlLists :
           \E sc \in [1..Len(v) -> Scans], t \in [1..Len(v) -> Titles] :
               cands = Zipped(v, sc, t)
    /\ ranked = <<>> /\ rankPc = "input"
    /\ BuildIdle /\ AppIdle /\ ScanIdle

Rank ==
    /\ rankPc = "input"
    /\ ranked' = RankResults(cands)
    /\ rankPc' = "done"
    /\ UNCHANGED <<cands, buildVars, appVars, scanVars>>

NextRank == Rank
SpecRank == InitRank /\ [][NextRank]_vars

-----------------------------------------------------------------------------
(* SpecScan: search applied to one retrieved document, for every document  *)
(* of up to MaxTokens tokens                                               *)

ScanUrl   == <<"a">>
ScanTitle == <<"A">>

InitScan ==
    /\ words \in WordLists /\ doc \in SeqsUpTo(TokenAlphabet, MaxTokens)
    /\ found = <<>> /\ scanPc = "input"
    /\ BuildIdle /\ AppIdle /\ RankIdle

Scan ==
    /\ scanPc = "input"
    /\ found' = Search(words, <<[url |-> ScanUrl, title |-> ScanTitle, content |-> doc]>>)
    /\ scanPc' = "done"
    /\ UNCHANGED <<words, doc, buildVars, appVars, rankVars>>

NextScan == Scan
SpecScan == InitScan /\ [][NextScan]_vars

-----------------------------------------------------------------------------
(* Spec: the engine after construction with an empty index, builds, the     *)
(* directory's deletion and requests, in any interleaving                  *)

AppQueries == {<<>>, <<"x">>, <<"A">>, <<"x", "a">>}

Init == BuildIdle /\ AppIdle /\ RankIdle /\ ScanIdle

Next ==
    \/ BuildIndexBuilt
    \/ BuildIndexStart
    \/ Crawl
    \/ AddDocument
    \/ Commit
    \/ RemoveIndexDir
    \/ \E q \in AppQueries : SearchRequest(q)

Spec == Init /\ [][Next]_vars

-----------------------------------------------------------------------------
(* SpecHistory: requests alone, for enough different queries to fill the   *)
(* history.  A query is "x" repeated; a request repeats a query of the     *)
(* history, is the empty query, or is a query longer than all of them.     *)

HistoryQueries == {[i \in 1..k |-> "x"] : k \in 0..MaxQueries}

Request ==
    \E q \in HistoryQueries :
        /\ \/ q = <<>>
           \/ q \in Range(search_history)
           \/ \A k \in 1..Len(search_history) : Len(q) > Len(search_history[k])
        /\ SearchRequest(q)

NextHistory == Request
SpecHistory == Init /\ [][NextHistory]_vars

-----------------------------------------------------------------------------
(* Properties of the ranking stage (SpecRank) *)

\* The places of cands with an occurrence and title t
Group(t) == {i \in 1..Len(cands) : cands[i].count > 0 /\ cands[i].title = t}

\* The shortest url length of a non-empty set of places
MinUrlLen(G) == CHOOSE n \in {Len(cands[i].url) : i \in G} :
                    \A i \in G : n <= Len(cands[i].url)

\* The first-retrieved place among those of G with the shortest url
FirstShortest(G) == CHOOSE i \in G :
    /\ Len(cands[i].url) = MinUrlLen(G)
    /\ \A j \in G : Len(cands[j].url) = MinUrlLen(G) => i <= j

Returned(i) == \E k \in 1..Len(ranked) :
    ranked[k] = <<cands[i].count, cands[i].context, cands[i].url, cands[i].title>>

\* C1: the list search returns holds no two distinct entries with the same
\* title.
C1_NoTwoEntriesShareTitle ==
    rankPc = "done" =>
        \A i, j \in 1..Len(ranked) :
            ranked[i] # ranked[j] => ranked[i][4] # ranked[j][4]

\* C2: when several candidates with an occurrence share a title, the returned
\* list holds an entry of that title whose url has the minimum length over
\* them, and among the candidates of that minimum length the first-retrieved
\* one is returned.
C2_ShortestUrlKept ==
    rankPc = "done" =>
        \A t \in Titles :
            Cardinality(Group(t)) >= 2 =>
                /\ \E k \in 1..Len(ranked) :
                       /\ ranked[k][4] = t
                       /\ Len(ranked[k][3]) = MinUrlLen(Group(t))
                /\ Returned(FirstShortest(Group(t)))

\* C2's case: two candidates of one title, the later one with the shorter url,
\* the earlier one discarded and the later one returned.
C2_Witness ==
    /\ rankPc = "done"
    /\ \E t \in Titles : \E i, j \in Group(t) :
           /\ i < j /\ Len(cands[j].url) < Len(cands[i].url)
           /\ ~Returned(i) /\ Returned(j)

\* C3: the returned list is ordered by occurrence count, descending.
C3_CountDescending ==
    rankPc = "done" =>
        \A k \in 1..(Len(ranked) - 1) : ranked[k][1] >= ranked[k + 1][1]

\* C3's case: the survivors were retrieved in another order than the one
\* returned, and the returned list holds two different counts.
C3_Witness ==
    /\ rankPc = "done"
    /\ ranked # Compact(Dedup(Recorded(cands)))
    /\ \E k \in 1..(Len(ranked) - 1) : ranked[k][1] > ranked[k + 1][1]

-----------------------------------------------------------------------------
(* Properties of the scan (SpecScan) *)

Matches(tokens, ws) == {p \in 0..(Len(tokens) - 1) : InWords(Lower(tokens[p + 1]), ws)}

LastMatch(tokens, ws) == CHOOSE p \in Matches(tokens, ws) :
                             \A q \in Matches(tokens, ws) : q <= p

\* The tokens from 4 before to 4 after position p, clipped to the document,
\* joined, the space before a full stop or comma removed
ClippedWindow(tokens, p) ==
    Replace(Replace(Join(SubSeq(tokens, Max(p - 4, 0) + 1,
                                        Min(p + 4, Len(tokens) - 1) + 1)),
                    "."), ",")

\* C4: for a document with a matching token the snippet is the window from 4
\* tokens before to 4 tokens after the last match, clipped at the document's
\* boundaries (so it starts at the first token when fewer than 4 precede).
C4_SnippetIsClippedWindow ==
    (scanPc = "done" /\ Matches(doc, words) # {}) =>
        /\ Len(found) = 1
        /\ found[1][2] = ClippedWindow(doc, LastMatch(doc, words))

-----------------------------------------------------------------------------
(* Properties of the build and of the /search route (Spec, SpecHistory) *)

\* C5: a build_index call that finds the index directory with at least one
\* committed document does not crawl and adds no document: it returns with
\* the document count it found.
C5_BuildOnBuiltIndexDoesNothing ==
    (buildLog.called /\ buildLog.before > 0) =>
        /\ ~buildLog.crawled
        /\ ~buildLog.raised
        /\ buildLog.returned
        /\ Cardinality(buildLog.indexed) = buildLog.before
        /\ buildPc = "idle"

\* C5's case: a first build has committed documents and build_index was
\* called again.
C5_Witness ==
    /\ buildLog.called /\ buildLog.returned /\ ~buildLog.crawled
    /\ buildLog.before > 0
    /\ visited # <<>>
    /\ doc_count = buildLog.before

\* C6: a request with the empty query ends as a client error and search is
\* not called for it.
C6_EmptyQueryIsClientError ==
    (lastRequest.outcome # "none" /\ lastRequest.query = <<>>) =>
        /\ lastRequest.outcome = "client_error"
        /\ ~lastRequest.searched

\* C7: a build whose crawl visited a url without content ends without an
\* error, committed, and the index holds the documents of exactly the other
\* visited urls.
C7_NoContentIsSkipped ==
    (buildLog.crawled /\ buildPc = "idle" /\ noContent # {}) =>
        /\ ~buildLog.raised
        /\ buildLog.returned
        /\ buildLog.indexed = Range(visited) \ noContent

\* C8: while no build has committed (no index directory, an empty index, or
\* a build with uncommitted writes) is_index_built is false and a request
\* gets the empty result list without an error.
C8_SearchBeforeBuildIsEmpty ==
    /\ committed = {} => ~is_index_built
    /\ (lastRequest.outcome # "none" /\ lastRequest.docs = 0) =>
           /\ lastRequest.outcome # "raised"
           /\ lastRequest.result = <<>>

\* C9: search_history never holds more than 10 queries, and a request that
\* brings a new query to a history of 10 leaves the 9 newest in their order
\* followed by the new query: the oldest is the one taken out.
C9_HistoryBoundedFifo ==
    /\ [](Len(search_history) <= HistoryCap)
    /\ [][(/\ Len(search_history) = HistoryCap
           /\ lastRequest'.outcome = "rendered"
           /\ lastRequest'.query # <<>>
           /\ lastRequest'.query \notin Range(search_history))
          => search_history' = Tail(search_history) \o <<lastRequest'.query>>]_vars

\* C9's case: the last request took the oldest query out of a full history.
C9_Witness ==
    /\ Len(search_history) = HistoryCap
    /\ lastRequest.popped # <<>>
    /\ lastRequest.popped \notin Range(search_history)
    /\ search_history[HistoryCap] = lastRequest.query

=============================================================================
